---- MODULE Spec2Model ----
(***************************************************************************)
(* Pixel Check Pro (src/pixel_check.py): the analysis pipeline of          *)
(* PixelAnalyzer.analyze_image, the classification of ReportGenerator,     *)
(* and the two drivers process_single and process_batch, as state          *)
(* machines over the same variables.                                       *)
(*                                                                         *)
(* Numbers.  The program computes in floating point; the model computes    *)
(* the same quantities exactly, as integers over a stated denominator:     *)
(*   - a raw sample is a natural number; a negative sample code stands     *)
(*     for a non-finite sample (NaN);                                      *)
(*   - a normalized sample is the pair [num, den] = num / den: the         *)
(*     fraction raw / (2^bit_depth - 1), with the greatest divisor common  *)
(*     to 2^bit_depth - 1 and all the samples of the image taken out, so   *)
(*     that the samples of an image share their denominator;               *)
(*   - the statistics of an image of n samples are kept as numerators:     *)
(*       mean_n   = n * den * mean        (the sum of the numerators)      *)
(*       std_n2   = (n * den * std)^2     (n * sum of squares - sum^2)     *)
(*       median_4 = 4 * den * median, and likewise q1_4, q3_4, iqr_4,      *)
(*       mad_4;  min and max are den * min, den * max;                     *)
(*   - a multiplier of AnalysisConfig is kept in halves (6.0 is 12),       *)
(*     max_dark_mean in thousandths (0.1 is 100), min_snr_db in dB;        *)
(*   - a percentage is the pair [num, den] in units of 0.0001 percent      *)
(*     (0.001 % is 10, 0.02 % is 200);                                     *)
(*   - snr_db is in dB; 20*log10(mean/std) is rounded to a value on the    *)
(*     same side of every threshold the program compares it with (SnrDb).  *)
(* Strings keep the program's text without its accents.                    *)
(***************************************************************************)
EXTENDS Integers, Sequences, FiniteSets, TLC

VARIABLES
    image,          \* the raw samples handed to analyze_image, flattened
    config,         \* the AnalysisConfig of the analyzer
    pc,             \* the step the run is at
    bit_depth,      \* the bit depth _normalize_image inferred (0: not yet)
    image_norm,     \* the normalized image
    dark_checked,   \* whether _validate_dark_frame ran
    issues,         \* the issues _validate_dark_frame found
    warnings,       \* the warnings logged
    stats,          \* the PixelStats being built
    hot_mask,       \* the hot mask
    dead_mask,      \* the dead mask
    iso_class,      \* the result of _calculate_iso_class ("": not yet)
    recommendation, \* the result of _generate_recommendation ("": not yet)
    error,          \* the exception that ended the run ("": none)
    reports,        \* the kinds of report generate_all_reports has written
    exit_status,    \* the status the program exits with (-1: still running)
    batch_dir,      \* the directory given to --batch
    cursor,         \* the position of process_batch in image_files
    results,        \* the rows process_batch has collected
    batch_log,      \* the files process_batch has logged as failed
    batch_report    \* the consolidated report of process_batch

\* the state of process_single and process_batch around analyze_image
driver == <<reports, exit_status, batch_dir, cursor, results, batch_log,
            batch_report>>

vars == <<image, config, pc, bit_depth, image_norm, dark_checked, issues,
          warnings, stats, hot_mask, dead_mask, iso_class, recommendation,
          error, reports, exit_status, batch_dir, cursor, results, batch_log,
          batch_report>>

-----------------------------------------------------------------------------
(* Bounds of the model *)

\* the largest number of samples of an image of the pipeline
MaxPixels == 5

\* the largest number of samples of an image of the normalizer alone
MaxNormPixels == 2

\* the raw sample values of the pipeline's images: 24 / 255 and 27 / 255 lie
\* on either side of the default max_dark_mean 0.1 (their mean is exactly
\* 0.1), and 12 : 24 : 36 lets the SNR fall exactly on 10 dB
\* (12, 24, 24, 24, 36)
Values == {0, 12, 24, 27, 36}

\* the raw sample values around every bit depth boundary
BoundaryValues == {0, 255, 256, 4095, 4096, 16383, 16384, 65535, 65536, 70000}

\* the codes of non-finite samples
NonFinite == {-1}

\* the largest number of samples of an image of one hot and one dead sample
MaxScenarioPixels == 6

\* the values <<low, common, high>> of such an image: two of 16 bits, one of
\* 14 bits and one of 8 bits (4369 = 65535 / 15 and 5461 = 16383 / 3, so the
\* normalized samples are fifteenths and thirds)
ScenarioTriples ==
    {<<0, 4369, 61166>>, <<4369, 8738, 65535>>, <<0, 5461, 16383>>,
     <<0, 12, 36>>}

-----------------------------------------------------------------------------
(* AnalysisConfig *)

DefaultConfig ==
    [hot_pixel_sigma      |-> 12,
     dead_pixel_sigma     |-> 12,
     hot_pixel_iqr_mult   |-> 7,
     dead_pixel_iqr_mult  |-> 7,
     hot_pixel_mad_mult   |-> 8,
     dead_pixel_mad_mult  |-> 8,
     min_snr_db           |-> 10,
     max_dark_mean        |-> 100,
     require_dark_frame   |-> TRUE]

\* --no-dark-check
NoDarkCheckConfig == [DefaultConfig EXCEPT !.require_dark_frame = FALSE]

\* a configuration file with lower multipliers (sigma 1.0, IQR 1.5, MAD 4.0)
SensitiveConfig ==
    [DefaultConfig EXCEPT !.hot_pixel_sigma = 2, !.dead_pixel_sigma = 2,
                          !.hot_pixel_iqr_mult = 3, !.dead_pixel_iqr_mult = 3]

\* a configuration file with every multiplier 0: the thresholds are the
\* mean, the quartiles and the median themselves
ZeroConfig ==
    [DefaultConfig EXCEPT !.hot_pixel_sigma = 0, !.dead_pixel_sigma = 0,
                          !.hot_pixel_iqr_mult = 0, !.dead_pixel_iqr_mult = 0,
                          !.hot_pixel_mad_mult = 0, !.dead_pixel_mad_mult = 0]

Configs == {DefaultConfig, NoDarkCheckConfig, SensitiveConfig, ZeroConfig}

-----------------------------------------------------------------------------
(* Sequences of numbers *)

IsNaN(x) == x < 0

HasNaN(s) == \E i \in 1..Len(s) : IsNaN(s[i])

RECURSIVE SumSeq(_)
SumSeq(s) == IF s = <<>> THEN 0 ELSE Head(s) + SumSeq(Tail(s))

RECURSIVE SumSq(_)
SumSq(s) == IF s = <<>> THEN 0 ELSE Head(s) * Head(s) + SumSq(Tail(s))

RECURSIVE MaxSeq(_)
MaxSeq(s) ==
    IF Len(s) = 1 THEN s[1]
    ELSE LET m == MaxSeq(Tail(s)) IN IF Head(s) > m THEN Head(s) ELSE m

RECURSIVE MinSeq(_)
MinSeq(s) ==
    IF Len(s) = 1 THEN s[1]
    ELSE LET m == MinSeq(Tail(s)) IN IF Head(s) < m THEN Head(s) ELSE m

RECURSIVE Insert(_, _)
Insert(x, s) ==
    IF s = <<>> THEN <<x>>
    ELSE IF x <= Head(s) THEN <<x>> \o s
    ELSE <<Head(s)>> \o Insert(x, Tail(s))

RECURSIVE SortAsc(_)
SortAsc(s) == IF s = <<>> THEN <<>> ELSE Insert(Head(s), SortAsc(Tail(s)))

Abs(x) == IF x < 0 THEN -x ELSE x

RECURSIVE Pow(_, _)
Pow(b, e) == IF e = 0 THEN 1 ELSE b * Pow(b, e - 1)

\* a > b * sqrt(v), for integers a, b and v >= 0
GtSqrt(a, b, v) ==
    IF b >= 0 THEN a > 0 /\ a * a > b * b * v
    ELSE a > 0 \/ a * a < b * b * v

-----------------------------------------------------------------------------
(* PixelAnalyzer._normalize_image *)

\* np.max(image): NaN as soon as one sample is NaN
MaxVal(img) == IF HasNaN(img) THEN -1 ELSE MaxSeq(img)

\* the tiers with < in place of <=
InferBitDepthOffByOne(max_val) ==
    IF IsNaN(max_val) THEN 16
    ELSE IF max_val < 255 THEN 8
    ELSE IF max_val < 4095 THEN 12
    ELSE IF max_val < 16383 THEN 14
    ELSE 16

\* every comparison with NaN is false, so NaN falls through to 16
InferBitDepth(max_val) ==
    IF IsNaN(max_val) THEN 16
    ELSE IF max_val <= 255 THEN 8
    ELSE IF max_val <= 4095 THEN 12
    ELSE IF max_val <= 16383 THEN 14
    ELSE 16

RECURSIVE Gcd(_, _)
Gcd(a, b) == IF b = 0 THEN a ELSE Gcd(b, a % b)

\* the greatest common divisor of the samples, 0 when all are 0
RECURSIVE GcdSeq(_)
GcdSeq(s) == IF s = <<>> THEN 0 ELSE Gcd(Head(s), GcdSeq(Tail(s)))

\* image.astype(np.float32) / max_range, each quotient as a fraction over a
\* common denominator
NormalizeImage(img, depth) ==
    LET max_range == Pow(2, depth) - 1
        g == IF HasNaN(img) THEN 1 ELSE Gcd(max_range, GcdSeq(img))
    IN  [i \in 1..Len(img) |->
            [num |-> IF IsNaN(img[i]) THEN -1 ELSE img[i] \div g,
             den |-> max_range \div g]]

-----------------------------------------------------------------------------
(* The state before analyze_image *)

NoStats ==
    [nan |-> FALSE, total_pixels |-> 0, hot_pixels |-> 0, dead_pixels |-> 0,
     hot_percentage |-> [num |-> 0, den |-> 1],
     dead_percentage |-> [num |-> 0, den |-> 1],
     mean_n |-> 0, std_n2 |-> 0, median_4 |-> 0, min |-> 0, max |-> 0,
     q1_4 |-> 0, q3_4 |-> 0, iqr_4 |-> 0, mad_4 |-> 0, den |-> 1,
     snr_db |-> 0]

SeqsUpTo(S, n) == UNION {[1..k -> S] : k \in 0..n}

\* the images of the pipeline: every grid of up to MaxPixels finite samples,
\* and the grids holding non-finite samples
Images ==
    SeqsUpTo(Values, MaxPixels)
        \cup {s \in SeqsUpTo({1} \cup NonFinite, MaxPixels) : HasNaN(s)}

BoundaryImages == SeqsUpTo(BoundaryValues, MaxNormPixels)

\* n samples of the common value t[2], but for the high value t[3] at hi and
\* the low value t[1] at lo
ScenarioImage(n, t, hi, lo) ==
    [i \in 1..n |-> IF i = hi THEN t[3] ELSE IF i = lo THEN t[1] ELSE t[2]]

ScenarioImages ==
    UNION {{ScenarioImage(n, t, p[1], p[2]) :
                t \in ScenarioTriples,
                p \in {q \in (1..n) \X (1..n) : q[1] # q[2]}} :
           n \in 3..MaxScenarioPixels}

\* no directory, and no consolidated report
NoDir == [exists |-> FALSE, files |-> <<>>]
NoReport == [written |-> FALSE, rows |-> <<>>]

\* the program before process_single or process_batch has done anything
DriverIdle ==
    /\ reports = {}
    /\ exit_status = -1
    /\ cursor = 0
    /\ results = <<>>
    /\ batch_log = <<>>
    /\ batch_report = NoReport

Fresh ==
    /\ pc = "normalize"
    /\ bit_depth = 0
    /\ image_norm = <<>>
    /\ dark_checked = FALSE
    /\ issues = {}
    /\ warnings = <<>>
    /\ stats = NoStats
    /\ hot_mask = <<>>
    /\ dead_mask = <<>>
    /\ iso_class = ""
    /\ recommendation = ""
    /\ error = ""
    /\ DriverIdle

Init ==
    /\ image \in Images
    /\ config \in Configs
    /\ batch_dir = NoDir
    /\ Fresh

-----------------------------------------------------------------------------
(* analyze_image, step by step *)

\* np.max of an empty array raises ValueError
NormalizeRaises ==
    /\ pc = "normalize"
    /\ image = <<>>
    /\ pc' = "failed"
    /\ error' = "ValueError"
    /\ UNCHANGED driver
    /\ UNCHANGED <<image, config, bit_depth, image_norm, dark_checked, issues,
                   warnings, stats, hot_mask, dead_mask, iso_class,
                   recommendation>>

\* the check runs whatever the toggle
RunsDarkCheckAlways(cfg) == TRUE

\* if self.config.require_dark_frame:
RunsDarkCheck(cfg) == cfg.require_dark_frame

Normalize ==
    /\ pc = "normalize"
    /\ image # <<>>
    /\ bit_depth' = InferBitDepth(MaxVal(image))
    /\ image_norm' = NormalizeImage(image, bit_depth')
    /\ pc' = IF RunsDarkCheck(config) THEN "validate" ELSE "stats"
    /\ UNCHANGED driver
    /\ UNCHANGED <<image, config, dark_checked, issues, warnings, stats,
                   hot_mask, dead_mask, iso_class, recommendation, error>>

-----------------------------------------------------------------------------
(* Signal to noise ratio *)

\* s^4 < c * v^2 for v > 0, where f is the integer part of sqrt(c): that is
\* s^2 / v < sqrt(c), decided without forming s^4 or c * v^2. With
\* s^2 = a * v + r and 0 <= r < v, a decides unless a = f, and then
\* (f + r / v)^2 < c is 2 * f * r * v + r^2 < (c - f^2) * v^2.
Pow4Lt(s, v, c, f) ==
    LET a == (s * s) \div v
        r == (s * s) % v
    IN  IF a < f THEN TRUE
        ELSE IF a > f THEN FALSE
        ELSE 2 * f * r * v + r * r < (c - f * f) * v * v

\* 20 * log10(mean / std) for mean = s / (n * den) > 0 and
\* std = sqrt(v) / (n * den) > 0, rounded to a value on the same side of 10,
\* 15, 20, 25 and 30 dB as the exact one: mean / std is compared with
\* 10^(1/2), 10^(3/4), 10, 10^(5/4) and 10^(3/2) through its square s^2 / v
\* and its fourth power s^4 / v^2.
SnrDb(s, v) ==
    IF s * s < 10 * v THEN 5
    ELSE IF s * s = 10 * v THEN 10
    ELSE IF Pow4Lt(s, v, 1000, 31) THEN 12
    ELSE IF s * s < 100 * v THEN 17
    ELSE IF s * s = 100 * v THEN 20
    ELSE IF Pow4Lt(s, v, 100000, 316) THEN 22
    ELSE IF s * s < 1000 * v THEN 27
    ELSE IF s * s = 1000 * v THEN 30
    ELSE 35

Nums(img_norm) == [i \in 1..Len(img_norm) |-> img_norm[i].num]

\* (n * den * np.std(flat))^2
VarN2(flat) == Len(flat) * SumSq(flat) - SumSeq(flat) * SumSeq(flat)

-----------------------------------------------------------------------------
(* PixelAnalyzer._validate_dark_frame *)

\* the sentinel is 100 in place of -100
ValidateSnrDbPositiveSentinel(img_norm) ==
    LET flat == [i \in 1..Len(img_norm) |-> img_norm[i].num]
    IN  IF ~HasNaN(flat) /\ VarN2(flat) > 0 /\ SumSeq(flat) > 0
        THEN SnrDb(SumSeq(flat), VarN2(flat))
        ELSE 100

\* snr_db = 20 * np.log10(mean / std) if std > 0 and mean > 0 else -100
ValidateSnrDb(img_norm) ==
    LET flat == Nums(img_norm)
    IN  IF ~HasNaN(flat) /\ VarN2(flat) > 0 /\ SumSeq(flat) > 0
        THEN SnrDb(SumSeq(flat), VarN2(flat))
        ELSE -100

\* mean > self.config.max_dark_mean
MeanTooHigh(img_norm, cfg) ==
    LET flat == Nums(img_norm)
    IN  /\ ~HasNaN(flat)
        /\ 1000 * SumSeq(flat) > cfg.max_dark_mean * Len(flat) * img_norm[1].den

\* the issues with >= and <= in place of > and <
DarkFrameIssuesStrict(img_norm, cfg) ==
    (IF ~HasNaN(Nums(img_norm))
        /\ 1000 * SumSeq(Nums(img_norm))
              >= cfg.max_dark_mean * Len(img_norm) * img_norm[1].den
     THEN {"Media alta"} ELSE {})
    \cup
    (IF ValidateSnrDb(img_norm) <= cfg.min_snr_db THEN {"SNR bajo"} ELSE {})

DarkFrameIssues(img_norm, cfg) ==
    (IF MeanTooHigh(img_norm, cfg) THEN {"Media alta"} ELSE {})
    \cup
    (IF ValidateSnrDb(img_norm) < cfg.min_snr_db THEN {"SNR bajo"} ELSE {})

ValidateDarkFrame ==
    /\ pc = "validate"
    /\ dark_checked' = TRUE
    /\ issues' = DarkFrameIssues(image_norm, config)
    /\ warnings' = IF issues' # {}
                   THEN Append(warnings, "Posiblemente NO es un dark frame valido")
                   ELSE warnings
    /\ pc' = "stats"
    /\ UNCHANGED driver
    /\ UNCHANGED <<image, config, bit_depth, image_norm, stats, hot_mask,
                   dead_mask, iso_class, recommendation, error>>

-----------------------------------------------------------------------------
(* PixelAnalyzer._compute_basic_stats *)

\* 4 * np.median of a sorted sequence
Median4(sorted) ==
    LET n == Len(sorted)
    IN  IF n % 2 = 1 THEN 4 * sorted[(n + 1) \div 2]
        ELSE 2 * (sorted[n \div 2] + sorted[n \div 2 + 1])

\* 4 * np.percentile(., q) of a sorted sequence, for q = 25 and q = 75:
\* linear interpolation at the index q / 100 * (n - 1), counted from 0
Percentile4(sorted, q) ==
    LET p == q * (Len(sorted) - 1)
        i == p \div 100
        r == p % 100
    IN  IF r = 0 THEN 4 * sorted[i + 1]
        ELSE ((100 - r) * 4 * sorted[i + 1] + r * 4 * sorted[i + 2]) \div 100

\* 4 * np.median(np.abs(flat - np.median(flat)))
Mad4(flat) ==
    LET med == Median4(SortAsc(flat))
        devs == [i \in 1..Len(flat) |-> Abs(4 * flat[i] - med)]
    IN  Median4(SortAsc(devs)) \div 4

\* every statistic of a sequence holding NaN is NaN
ComputeStats(img_norm) ==
    LET flat == Nums(img_norm)
        sorted == SortAsc(flat)
    IN  IF HasNaN(flat)
        THEN [NoStats EXCEPT !.nan = TRUE, !.total_pixels = Len(flat),
                             !.den = img_norm[1].den]
        ELSE [NoStats EXCEPT
                !.total_pixels = Len(flat),
                !.mean_n = SumSeq(flat),
                !.std_n2 = VarN2(flat),
                !.median_4 = Median4(sorted),
                !.min = MinSeq(flat),
                !.max = MaxSeq(flat),
                !.q1_4 = Percentile4(sorted, 25),
                !.q3_4 = Percentile4(sorted, 75),
                !.iqr_4 = Percentile4(sorted, 75) - Percentile4(sorted, 25),
                !.mad_4 = Mad4(flat),
                !.den = img_norm[1].den]

ComputeBasicStats ==
    /\ pc = "stats"
    /\ stats' = ComputeStats(image_norm)
    /\ pc' = "detect"
    /\ UNCHANGED driver
    /\ UNCHANGED <<image, config, bit_depth, image_norm, dark_checked, issues,
                   warnings, hot_mask, dead_mask, iso_class, recommendation,
                   error>>

-----------------------------------------------------------------------------
(* PixelAnalyzer._detect_defective_pixels: x is the numerator of a sample.  *)
(* Both sides of each comparison are multiplied by a positive number: by    *)
(* 2 * n * den for the sigma method, by 8 * den for the other two.          *)

\* image_norm > stats.mean + hot_pixel_sigma * stats.std
HotSigma(x, st, cfg) ==
    /\ ~st.nan /\ ~IsNaN(x)
    /\ GtSqrt(2 * (st.total_pixels * x - st.mean_n), cfg.hot_pixel_sigma,
              st.std_n2)

\* image_norm < stats.mean - dead_pixel_sigma * stats.std
DeadSigma(x, st, cfg) ==
    /\ ~st.nan /\ ~IsNaN(x)
    /\ GtSqrt(2 * (st.mean_n - st.total_pixels * x), cfg.dead_pixel_sigma,
              st.std_n2)

\* image_norm > stats.q3 + hot_pixel_iqr_mult * stats.iqr
HotIqr(x, st, cfg) ==
    /\ ~st.nan /\ ~IsNaN(x)
    /\ 8 * x > 2 * st.q3_4 + cfg.hot_pixel_iqr_mult * st.iqr_4

\* image_norm < stats.q1 - dead_pixel_iqr_mult * stats.iqr
DeadIqr(x, st, cfg) ==
    /\ ~st.nan /\ ~IsNaN(x)
    /\ 8 * x < 2 * st.q1_4 - cfg.dead_pixel_iqr_mult * st.iqr_4

\* image_norm > stats.median + hot_pixel_mad_mult * stats.mad
HotMad(x, st, cfg) ==
    /\ ~st.nan /\ ~IsNaN(x)
    /\ 8 * x > 2 * st.median_4 + cfg.hot_pixel_mad_mult * st.mad_4

\* image_norm < stats.median - dead_pixel_mad_mult * stats.mad
DeadMad(x, st, cfg) ==
    /\ ~st.nan /\ ~IsNaN(x)
    /\ 8 * x < 2 * st.median_4 - cfg.dead_pixel_mad_mult * st.mad_4

\* astype(int)
AsInt(b) == IF b THEN 1 ELSE 0

\* one method is enough
ConsensusAny(a, b, c) == AsInt(a) + AsInt(b) + AsInt(c) >= 1

\* (sigma.astype(int) + iqr.astype(int) + mad.astype(int)) >= 2
Consensus(a, b, c) == AsInt(a) + AsInt(b) + AsInt(c) >= 2

HotConsensus(img_norm, st, cfg) ==
    [i \in 1..Len(img_norm) |->
        Consensus(HotSigma(img_norm[i].num, st, cfg),
                  HotIqr(img_norm[i].num, st, cfg),
                  HotMad(img_norm[i].num, st, cfg))]

\* the dead mask computed with the comparisons of the hot mask
DeadConsensusAsHot(img_norm, st, cfg) == HotConsensus(img_norm, st, cfg)

DeadConsensus(img_norm, st, cfg) ==
    [i \in 1..Len(img_norm) |->
        Consensus(DeadSigma(img_norm[i].num, st, cfg),
                  DeadIqr(img_norm[i].num, st, cfg),
                  DeadMad(img_norm[i].num, st, cfg))]

DetectDefectivePixels ==
    /\ pc = "detect"
    /\ hot_mask' = HotConsensus(image_norm, stats, config)
    /\ dead_mask' = DeadConsensus(image_norm, stats, config)
    /\ pc' = "count"
    /\ UNCHANGED driver
    /\ UNCHANGED <<image, config, bit_depth, image_norm, dark_checked, issues,
                   warnings, stats, iso_class, recommendation, error>>

-----------------------------------------------------------------------------
(* analyze_image: the counts, the percentages and the SNR *)

\* int(np.sum(mask))
CountTrue(mask) == Cardinality({i \in 1..Len(mask) : mask[i]})

\* the fraction, not multiplied by 100
PercentageAsFraction(pixels, total) == [num |-> pixels * 10000, den |-> total]

\* (pixels / total_pixels) * 100, in units of 0.0001 percent
Percentage(pixels, total) == [num |-> pixels * 1000000, den |-> total]

\* 20 * np.log10(stats.mean / stats.std) if stats.std > 0 else -100
StatsSnrDb(st) ==
    IF ~st.nan /\ st.std_n2 > 0 THEN SnrDb(st.mean_n, st.std_n2) ELSE -100

CountDefects ==
    /\ pc = "count"
    /\ stats' = [stats EXCEPT
                    !.hot_pixels = CountTrue(hot_mask),
                    !.dead_pixels = CountTrue(dead_mask),
                    !.total_pixels = Len(image_norm),
                    !.hot_percentage =
                        Percentage(CountTrue(hot_mask), Len(image_norm)),
                    !.dead_percentage =
                        Percentage(CountTrue(dead_mask), Len(image_norm)),
                    !.snr_db = StatsSnrDb(stats)]
    /\ pc' = "report"
    /\ UNCHANGED driver
    /\ UNCHANGED <<image, config, bit_depth, image_norm, dark_checked, issues,
                   warnings, hot_mask, dead_mask, iso_class, recommendation,
                   error>>

-----------------------------------------------------------------------------
(* ReportGenerator._calculate_iso_class and _generate_recommendation *)

GradeAPlus == "A+ (Excelente - Nivel Profesional)"
GradeA == "A (Muy Bueno - Avanzado)"
GradeB == "B (Bueno - Entusiasta)"
GradeC == "C (Aceptable - Consumidor)"
GradeD == "D (Deficiente - Requiere Atencion)"

RecNotDarkFrame == "NO ES UN DARK FRAME VALIDO! Verifique la captura."
RecSevere == "Sensor con defectos severos. Revision profesional recomendada."
RecCalibration ==
    "Sensor necesita calibracion. Considere mapeo de pixeles defectuosos."
RecExcellent ==
    "Sensor en excelente estado. Adecuado para trabajo profesional."
RecGood == "Sensor en buen estado para uso general."

\* percentage < t and percentage > t, t in units of 0.0001 percent
PctLt(p, t) == p.num < t * p.den
PctGt(p, t) == p.num > t * p.den

\* the tiers with <= and >= in place of < and >
CalculateIsoClassNonStrict(st) ==
    IF ~PctGt(st.hot_percentage, 10) /\ ~PctGt(st.dead_percentage, 5)
        /\ st.snr_db >= 30
    THEN GradeAPlus
    ELSE IF ~PctGt(st.hot_percentage, 50) /\ ~PctGt(st.dead_percentage, 20)
        /\ st.snr_db >= 25
    THEN GradeA
    ELSE IF ~PctGt(st.hot_percentage, 100) /\ ~PctGt(st.dead_percentage, 50)
        /\ st.snr_db >= 20
    THEN GradeB
    ELSE IF ~PctGt(st.hot_percentage, 200) /\ ~PctGt(st.dead_percentage, 100)
        /\ st.snr_db >= 15
    THEN GradeC
    ELSE GradeD

\* the tier B with its SNR comparison reversed
CalculateIsoClassReversedSnr(st) ==
    IF PctLt(st.hot_percentage, 10) /\ PctLt(st.dead_percentage, 5)
        /\ st.snr_db > 30
    THEN GradeAPlus
    ELSE IF PctLt(st.hot_percentage, 50) /\ PctLt(st.dead_percentage, 20)
        /\ st.snr_db > 25
    THEN GradeA
    ELSE IF PctLt(st.hot_percentage, 100) /\ PctLt(st.dead_percentage, 50)
        /\ st.snr_db < 20
    THEN GradeB
    ELSE IF PctLt(st.hot_percentage, 200) /\ PctLt(st.dead_percentage, 100)
        /\ st.snr_db > 15
    THEN GradeC
    ELSE GradeD

CalculateIsoClass(st) ==
    IF PctLt(st.hot_percentage, 10) /\ PctLt(st.dead_percentage, 5)
        /\ st.snr_db > 30
    THEN GradeAPlus
    ELSE IF PctLt(st.hot_percentage, 50) /\ PctLt(st.dead_percentage, 20)
        /\ st.snr_db > 25
    THEN GradeA
    ELSE IF PctLt(st.hot_percentage, 100) /\ PctLt(st.dead_percentage, 50)
        /\ st.snr_db > 20
    THEN GradeB
    ELSE IF PctLt(st.hot_percentage, 200) /\ PctLt(st.dead_percentage, 100)
        /\ st.snr_db > 15
    THEN GradeC
    ELSE GradeD

\* the 'excellent' text from 30 dB instead of 25 dB
GenerateRecommendationAt30(st) ==
    IF st.snr_db < 10 THEN RecNotDarkFrame
    ELSE IF PctGt(st.hot_percentage, 1000) THEN RecSevere
    ELSE IF PctGt(st.hot_percentage, 200) THEN RecCalibration
    ELSE IF st.snr_db > 30 THEN RecExcellent
    ELSE RecGood

GenerateRecommendation(st) ==
    IF st.snr_db < 10 THEN RecNotDarkFrame
    ELSE IF PctGt(st.hot_percentage, 1000) THEN RecSevere
    ELSE IF PctGt(st.hot_percentage, 200) THEN RecCalibration
    ELSE IF st.snr_db > 25 THEN RecExcellent
    ELSE RecGood

\* the classification and the recommendation that a report of the result
\* holds, as _generate_excel_report and _generate_text_report compute them
GenerateReports ==
    /\ pc = "report"
    /\ iso_class' = CalculateIsoClass(stats)
    /\ recommendation' = GenerateRecommendation(stats)
    /\ pc' = "done"
    /\ UNCHANGED driver
    /\ UNCHANGED <<image, config, bit_depth, image_norm, dark_checked, issues,
                   warnings, stats, hot_mask, dead_mask, error>>

-----------------------------------------------------------------------------
(* ImageLoader.load_image: a file is the record [name, exists, suffix,      *)
(* readable, image]; readable says whether the reader of its format         *)
(* succeeds, image is what it returns                                       *)

SupportedSuffixes ==
    {".tif", ".tiff", ".nef", ".cr2", ".cr3", ".dng", ".arw", ".orf", ".jpg",
     ".jpeg", ".png"}

\* path.suffix.lower(), on the suffixes of the model
Lower(suffix) ==
    IF suffix = ".TIF" THEN ".tif"
    ELSE IF suffix = ".TIFF" THEN ".tiff"
    ELSE suffix

LoadImage(f) ==
    IF ~f.exists THEN [error |-> "FileNotFoundError", image |-> <<>>]
    ELSE IF Lower(f.suffix) \notin SupportedSuffixes
    THEN [error |-> "Formato no soportado", image |-> <<>>]
    ELSE IF ~f.readable THEN [error |-> "Error cargando", image |-> <<>>]
    ELSE [error |-> "", image |-> f.image]

-----------------------------------------------------------------------------
(* analyze_image as one call: what it returns or raises. The dark-frame     *)
(* check only logs, so it has no part in the result.                        *)

AnalyzeImage(img, cfg) ==
    IF img = <<>> THEN [error |-> "ValueError", stats |-> NoStats]
    ELSE LET norm == NormalizeImage(img, InferBitDepth(MaxVal(img)))
             st == ComputeStats(norm)
             hot == HotConsensus(norm, st, cfg)
             dead == DeadConsensus(norm, st, cfg)
         IN  [error |-> "",
              stats |-> [st EXCEPT
                            !.hot_pixels = CountTrue(hot),
                            !.dead_pixels = CountTrue(dead),
                            !.total_pixels = Len(norm),
                            !.hot_percentage =
                                Percentage(CountTrue(hot), Len(norm)),
                            !.dead_percentage =
                                Percentage(CountTrue(dead), Len(norm)),
                            !.snr_db = StatsSnrDb(st)]]

-----------------------------------------------------------------------------
(* ReportGenerator.generate_all_reports *)

\* the methods the class ReportGenerator defines
ReportGeneratorMethods ==
    {"__init__", "generate_all_reports", "_generate_json_report",
     "_generate_excel_report", "_generate_text_report", "_calculate_iso_class",
     "_generate_recommendation"}

\* the reports of generate_all_reports in its order: the key of the report,
\* the method it calls on self, and the methods that one calls on self
ReportSteps ==
    <<[kind |-> "json", method |-> "_generate_json_report",
       calls |-> {"_calculate_quality_grade"}],
      [kind |-> "excel", method |-> "_generate_excel_report",
       calls |-> {"_calculate_iso_class", "_generate_recommendation"}],
      [kind |-> "txt", method |-> "_generate_text_report",
       calls |-> {"_calculate_iso_class", "_generate_recommendation"}],
      [kind |-> "html", method |-> "_generate_html_report", calls |-> {}],
      [kind |-> "images", method |-> "_generate_visualizations",
       calls |-> {}]>>

\* looking up a method the class does not define raises AttributeError
StepRaises(step) ==
    ({step.method} \cup step.calls) \ ReportGeneratorMethods # {}

\* the reports written one after the other until one raises
RECURSIVE RunReports(_, _)
RunReports(steps, written) ==
    IF steps = <<>> THEN [error |-> "", written |-> written]
    ELSE IF StepRaises(Head(steps))
    THEN [error |-> "AttributeError", written |-> written]
    ELSE RunReports(Tail(steps), written \cup {Head(steps).kind})

\* the visualizations are asked for only when both masks are given
GenerateAllReports(with_masks) ==
    RunReports(IF with_masks THEN ReportSteps
               ELSE SelectSeq(ReportSteps, LAMBDA st : st.kind # "images"),
               {})

-----------------------------------------------------------------------------
(* process_single *)

\* the paths of the command line: a missing file, a file of another format,
\* a TIFF that cannot be read, and a TIFF holding any image of the pipeline
SingleFiles ==
    {[name |-> "missing.tif", exists |-> FALSE, suffix |-> ".tif",
      readable |-> FALSE, image |-> <<>>],
     [name |-> "notes.txt", exists |-> TRUE, suffix |-> ".txt",
      readable |-> FALSE, image |-> <<>>],
     [name |-> "broken.TIF", exists |-> TRUE, suffix |-> ".TIF",
      readable |-> FALSE, image |-> <<>>]}
    \cup
    {[name |-> "dark.tif", exists |-> TRUE, suffix |-> ".tif",
      readable |-> TRUE, image |-> img] : img \in Images}

\* the status is always 0
ProcessSingleStatusAlwaysZero(err) == 0

\* return 0 at the end of the try, return 1 in except Exception
ProcessSingleStatus(err) == IF err = "" THEN 0 ELSE 1

\* loader.load_image(image_path)
SingleLoad ==
    /\ pc = "load"
    /\ \E f \in SingleFiles :
            LET r == LoadImage(f)
            IN  IF r.error # ""
                THEN /\ error' = r.error
                     /\ pc' = "failed"
                     /\ UNCHANGED image
                ELSE /\ image' = r.image
                     /\ pc' = "normalize"
                     /\ UNCHANGED error
    /\ UNCHANGED driver
    /\ UNCHANGED <<config, bit_depth, image_norm, dark_checked, issues,
                   warnings, stats, hot_mask, dead_mask, iso_class,
                   recommendation>>

\* reporter.generate_all_reports(stats, metadata, config, hot_mask,
\* dead_mask), and the summary that follows it
SingleGenerateAllReports ==
    /\ pc = "report"
    /\ LET r == GenerateAllReports(TRUE)
       IN  /\ reports' = r.written
           /\ IF r.error # ""
              THEN /\ error' = r.error
                   /\ pc' = "failed"
                   /\ UNCHANGED iso_class
              ELSE /\ iso_class' = CalculateIsoClass(stats)
                   /\ pc' = "summary"
                   /\ UNCHANGED error
    /\ UNCHANGED <<image, config, bit_depth, image_norm, dark_checked, issues,
                   warnings, stats, hot_mask, dead_mask, recommendation,
                   exit_status, batch_dir, cursor, results, batch_log,
                   batch_report>>

\* return 0, or except Exception: return 1; main returns the status and
\* sys.exit exits with it
ProcessSingleReturn ==
    /\ pc \in {"summary", "failed"}
    /\ exit_status' = ProcessSingleStatus(error)
    /\ pc' = "exited"
    /\ UNCHANGED <<image, config, bit_depth, image_norm, dark_checked, issues,
                   warnings, stats, hot_mask, dead_mask, iso_class,
                   recommendation, error, reports, batch_dir, cursor, results,
                   batch_log, batch_report>>

-----------------------------------------------------------------------------
(* process_batch *)

\* the largest number of files the glob of process_batch finds
MaxFiles == 3

\* what a file found by the glob can be, but for its name: one of the four
\* suffixes globbed for; unreadable, or holding an image that analyze_image
\* rejects, an image of grade D, or an image of a better grade
BatchFileKinds ==
    {[exists |-> TRUE, suffix |-> ".tif", readable |-> FALSE, image |-> <<>>],
     [exists |-> TRUE, suffix |-> ".TIF", readable |-> TRUE, image |-> <<>>],
     [exists |-> TRUE, suffix |-> ".tiff", readable |-> TRUE,
      image |-> <<24, 36>>],
     [exists |-> TRUE, suffix |-> ".TIFF", readable |-> TRUE,
      image |-> <<24, 27>>]}

\* the file of kind k found at position i of the listing
NamedFile(i, k) ==
    [name |-> i, exists |-> k.exists, suffix |-> k.suffix,
     readable |-> k.readable, image |-> k.image]

\* the directories: a missing one, and every listing of up to MaxFiles files,
\* each named by its position
BatchDirs ==
    {NoDir} \cup
    {[exists |-> TRUE, files |-> [i \in 1..Len(ks) |-> NamedFile(i, ks[i])]] :
        ks \in SeqsUpTo(BatchFileKinds, MaxFiles)}

\* the body of the per-file try: the row of the file, or the exception
ProcessFile(f, cfg) ==
    LET loaded == LoadImage(f)
        analyzed == AnalyzeImage(loaded.image, cfg)
    IN  IF loaded.error # "" THEN [error |-> loaded.error, row |-> <<>>]
        ELSE IF analyzed.error # "" THEN [error |-> analyzed.error, row |-> <<>>]
        ELSE [error |-> "",
              row |-> [file |-> f.name,
                       hot_pixels |-> analyzed.stats.hot_pixels,
                       dead_pixels |-> analyzed.stats.dead_pixels,
                       hot_percentage |-> analyzed.stats.hot_percentage,
                       dead_percentage |-> analyzed.stats.dead_percentage,
                       snr_db |-> analyzed.stats.snr_db,
                       iso_class |-> CalculateIsoClass(analyzed.stats)]]

\* the loop ends at the first failing file
AfterFailureBreak(c, n) == n + 1

\* except Exception: ... continue; c is the position of the failing file and
\* n the number of files
AfterFailure(c, n) == c + 1

\* a report is written whatever the rows
ReportDueAlways(rows) == TRUE

\* if results:
ReportDue(rows) == rows # <<>>

\* the directory check and the glob
BatchDiscover ==
    /\ pc = "batch_start"
    /\ IF ~batch_dir.exists \/ batch_dir.files = <<>>
       THEN /\ exit_status' = 1
            /\ pc' = "exited"
            /\ UNCHANGED cursor
       ELSE /\ cursor' = 1
            /\ pc' = "batch_loop"
            /\ UNCHANGED exit_status
    /\ UNCHANGED <<image, config, bit_depth, image_norm, dark_checked, issues,
                   warnings, stats, hot_mask, dead_mask, iso_class,
                   recommendation, error, reports, batch_dir, results,
                   batch_log, batch_report>>

\* one turn of the loop over image_files
BatchProcessFile ==
    /\ pc = "batch_loop"
    /\ cursor <= Len(batch_dir.files)
    /\ LET r == ProcessFile(batch_dir.files[cursor], config)
       IN  IF r.error = ""
           THEN /\ results' = Append(results, r.row)
                /\ cursor' = cursor + 1
                /\ UNCHANGED batch_log
           ELSE /\ batch_log' = Append(batch_log, batch_dir.files[cursor].name)
                /\ cursor' = AfterFailure(cursor, Len(batch_dir.files))
                /\ UNCHANGED results
    /\ UNCHANGED <<image, config, pc, bit_depth, image_norm, dark_checked,
                   issues, warnings, stats, hot_mask, dead_mask, iso_class,
                   recommendation, error, reports, exit_status, batch_dir,
                   batch_report>>

\* after the loop: the consolidated report, which the writer may fail to
\* write, and the return
BatchReport ==
    /\ pc = "batch_loop"
    /\ cursor > Len(batch_dir.files)
    /\ IF ReportDue(results)
       THEN \E written \in BOOLEAN :
                IF written
                THEN /\ batch_report' = [written |-> TRUE, rows |-> results]
                     /\ exit_status' = 0
                     /\ UNCHANGED error
                ELSE /\ error' = "OSError"
                     /\ exit_status' = 1
                     /\ UNCHANGED batch_report
       ELSE /\ exit_status' = 0
            /\ UNCHANGED <<batch_report, error>>
    /\ pc' = "exited"
    /\ UNCHANGED <<image, config, bit_depth, image_norm, dark_checked, issues,
                   warnings, stats, hot_mask, dead_mask, iso_class,
                   recommendation, reports, batch_dir, cursor, results,
                   batch_log>>

-----------------------------------------------------------------------------
(* Specifications *)

\* analyze_image on one image, then the classification and the
\* recommendation of its result
Next ==
    \/ NormalizeRaises
    \/ Normalize
    \/ ValidateDarkFrame
    \/ ComputeBasicStats
    \/ DetectDefectivePixels
    \/ CountDefects
    \/ GenerateReports

Spec == Init /\ [][Next]_vars

\* _normalize_image alone, on samples around every bit depth boundary
NextNorm == Normalize \/ NormalizeRaises

InitNorm ==
    /\ image \in BoundaryImages
    /\ config \in {DefaultConfig}
    /\ batch_dir = NoDir
    /\ Fresh

SpecNorm == InitNorm /\ [][NextNorm]_vars

\* the inputs of the classification, on and around every threshold
HotInputs == {9, 10, 49, 50, 99, 100, 199, 200, 201, 1000, 1001}
DeadInputs == {4, 5, 19, 20, 49, 50, 99, 100}
SnrInputs == {-100, 5, 10, 12, 15, 17, 20, 22, 25, 27, 30, 35}

StatsInputs ==
    {[NoStats EXCEPT !.hot_percentage = [num |-> h, den |-> 1],
                     !.dead_percentage = [num |-> d, den |-> 1],
                     !.snr_db = s] :
        h \in HotInputs, d \in DeadInputs, s \in SnrInputs}

\* _calculate_iso_class and _generate_recommendation alone, on any statistics
InitReport ==
    /\ image = <<>>
    /\ config = DefaultConfig
    /\ pc = "report"
    /\ bit_depth = 0
    /\ image_norm = <<>>
    /\ dark_checked = FALSE
    /\ issues = {}
    /\ warnings = <<>>
    /\ stats \in StatsInputs
    /\ hot_mask = <<>>
    /\ dead_mask = <<>>
    /\ iso_class = ""
    /\ recommendation = ""
    /\ error = ""
    /\ batch_dir = NoDir
    /\ DriverIdle

NextReport == GenerateReports

SpecReport == InitReport /\ [][NextReport]_vars

\* process_batch on any directory
InitBatch ==
    /\ image = <<>>
    /\ config \in Configs
    /\ pc = "batch_start"
    /\ bit_depth = 0
    /\ image_norm = <<>>
    /\ dark_checked = FALSE
    /\ issues = {}
    /\ warnings = <<>>
    /\ stats = NoStats
    /\ hot_mask = <<>>
    /\ dead_mask = <<>>
    /\ iso_class = ""
    /\ recommendation = ""
    /\ error = ""
    /\ batch_dir \in BatchDirs
    /\ DriverIdle

NextBatch ==
    \/ BatchDiscover
    \/ BatchProcessFile
    \/ BatchReport

SpecBatch == InitBatch /\ [][NextBatch]_vars

\* process_single on any path
InitSingle ==
    /\ image = <<>>
    /\ config \in Configs
    /\ pc = "load"
    /\ bit_depth = 0
    /\ image_norm = <<>>
    /\ dark_checked = FALSE
    /\ issues = {}
    /\ warnings = <<>>
    /\ stats = NoStats
    /\ hot_mask = <<>>
    /\ dead_mask = <<>>
    /\ iso_class = ""
    /\ recommendation = ""
    /\ error = ""
    /\ batch_dir = NoDir
    /\ DriverIdle

NextSingle ==
    \/ SingleLoad
    \/ NormalizeRaises
    \/ Normalize
    \/ ValidateDarkFrame
    \/ ComputeBasicStats
    \/ DetectDefectivePixels
    \/ CountDefects
    \/ SingleGenerateAllReports
    \/ ProcessSingleReturn

SpecSingle == InitSingle /\ [][NextSingle]_vars

\* analyze_image on the images of one hot and one dead sample
InitScenario ==
    /\ image \in ScenarioImages
    /\ config \in Configs
    /\ batch_dir = NoDir
    /\ Fresh

NextScenario ==
    \/ Normalize
    \/ ValidateDarkFrame
    \/ ComputeBasicStats
    \/ DetectDefectivePixels
    \/ CountDefects

SpecScenario == InitScenario /\ [][NextScenario]_vars

-----------------------------------------------------------------------------
(* Properties *)

Returned == pc \in {"report", "done"}

GradeRank(g) ==
    IF g = GradeAPlus THEN 4
    ELSE IF g = GradeA THEN 3
    ELSE IF g = GradeB THEN 2
    ELSE IF g = GradeC THEN 1
    ELSE 0

Affirmative == {RecExcellent, RecGood}

\* the table of the tiers, best first
TierTable ==
    <<[grade |-> GradeAPlus, hot |-> 10, dead |-> 5, snr |-> 30],
      [grade |-> GradeA, hot |-> 50, dead |-> 20, snr |-> 25],
      [grade |-> GradeB, hot |-> 100, dead |-> 50, snr |-> 20],
      [grade |-> GradeC, hot |-> 200, dead |-> 100, snr |-> 15]>>

TierHolds(k, st) ==
    /\ st.hot_percentage.num < TierTable[k].hot * st.hot_percentage.den
    /\ st.dead_percentage.num < TierTable[k].dead * st.dead_percentage.den
    /\ st.snr_db > TierTable[k].snr

\* C2: the class of a result is the grade of the first tier, in the order
\* A+, A, B, C, whose three strict conditions all hold, and D when none holds.
C2_FirstMatchingTier ==
    pc = "done" =>
        LET holding == {k \in 1..4 : TierHolds(k, stats)}
        IN  IF holding = {} THEN iso_class = GradeD
            ELSE \E k \in holding :
                    /\ \A j \in holding : k <= j
                    /\ iso_class = TierTable[k].grade

\* a hot percentage exactly on the A+ threshold, with everything else in
\* every tier: the class is A, the first tier that holds
C2_Witness ==
    /\ pc = "done"
    /\ stats.hot_percentage = [num |-> 10, den |-> 1]
    /\ stats.dead_percentage = [num |-> 4, den |-> 1]
    /\ stats.snr_db = 35
    /\ iso_class = GradeA

C6_GradeDRecommendation ==
    (pc = "done" /\ iso_class = GradeD) =>
        recommendation =
            IF stats.snr_db < 10 THEN RecNotDarkFrame
            ELSE IF stats.hot_percentage.num > 1000 * stats.hot_percentage.den
            THEN RecSevere
            ELSE RecCalibration

\* C7 as claimed: a result of grade A+, A, B or C gets an affirmative text
\* that its grade alone decides.
C7_RecommendationByGradeAlone ==
    (pc = "done" /\ iso_class # GradeD) =>
        /\ recommendation \in Affirmative
        /\ \A t \in StatsInputs :
                CalculateIsoClass(t) = iso_class =>
                    GenerateRecommendation(t) = recommendation

\* C7 as amended: a result of grade A+, A, B or C gets an affirmative text
\* that snr_db decides, 'excellent' above 25 dB and 'good' otherwise; so A+
\* and A always get 'excellent'.
C7_RecommendationBySnr ==
    (pc = "done" /\ iso_class # GradeD) =>
        /\ recommendation =
                IF stats.snr_db > 25 THEN RecExcellent ELSE RecGood
        /\ iso_class \in {GradeAPlus, GradeA} => recommendation = RecExcellent

\* a result of grade C with the 'excellent' text
C7_Witness ==
    /\ pc = "done"
    /\ iso_class = GradeC
    /\ recommendation = RecExcellent

\* C9: a result with no higher hot and dead percentages and no lower SNR
\* than another never gets a worse grade.
C9_GradeMonotone ==
    pc = "done" =>
        \A t \in StatsInputs :
            ( /\ t.hot_percentage.num <= stats.hot_percentage.num
              /\ t.dead_percentage.num <= stats.dead_percentage.num
              /\ t.snr_db >= stats.snr_db )
            => GradeRank(CalculateIsoClass(t)) >= GradeRank(iso_class)

\* a result of grade C, and a better input of grade A+
C9_Witness ==
    /\ pc = "done"
    /\ iso_class = GradeC
    /\ \E t \in StatsInputs :
            /\ t.hot_percentage.num < stats.hot_percentage.num
            /\ t.dead_percentage.num < stats.dead_percentage.num
            /\ t.snr_db > stats.snr_db
            /\ CalculateIsoClass(t) = GradeAPlus

\* d > (k2 / 2) * sqrt(v): the distance d of a sample from the centre
\* exceeds the multiplier k2 (in halves) times the square root of v
ExceedsSqrt(d, k2, v) ==
    IF k2 >= 0 THEN d > 0 /\ 4 * d * d > k2 * k2 * v
    ELSE d > 0 \/ 4 * d * d < k2 * k2 * v

\* the methods that put sample i above their hot threshold:
\* mean + k * std, q3 + m * iqr, median + m * mad
HotVotes(i) ==
    LET x == image_norm[i].num
        n == Len(image_norm)
    IN  IF stats.nan THEN {}
        ELSE (IF ExceedsSqrt(n * x - stats.mean_n, config.hot_pixel_sigma,
                             stats.std_n2)
              THEN {"sigma"} ELSE {})
             \cup
             (IF 8 * x - 2 * stats.q3_4 > config.hot_pixel_iqr_mult * stats.iqr_4
              THEN {"iqr"} ELSE {})
             \cup
             (IF 8 * x - 2 * stats.median_4
                    > config.hot_pixel_mad_mult * stats.mad_4
              THEN {"mad"} ELSE {})

\* the methods that put sample i below their dead threshold:
\* mean - k * std, q1 - m * iqr, median - m * mad
DeadVotes(i) ==
    LET x == image_norm[i].num
        n == Len(image_norm)
    IN  IF stats.nan THEN {}
        ELSE (IF ExceedsSqrt(stats.mean_n - n * x, config.dead_pixel_sigma,
                             stats.std_n2)
              THEN {"sigma"} ELSE {})
             \cup
             (IF 2 * stats.q1_4 - 8 * x > config.dead_pixel_iqr_mult * stats.iqr_4
              THEN {"iqr"} ELSE {})
             \cup
             (IF 2 * stats.median_4 - 8 * x
                    > config.dead_pixel_mad_mult * stats.mad_4
              THEN {"mad"} ELSE {})

Detected == pc \in {"count", "report", "done"}

\* C1: a sample is in the hot mask iff at least 2 of the 3 methods put it
\* strictly above their hot threshold, and in the dead mask iff at least 2 of
\* the 3 put it strictly below their dead threshold.
C1_TwoOfThreeConsensus ==
    Detected =>
        /\ Len(hot_mask) = Len(image_norm)
        /\ Len(dead_mask) = Len(image_norm)
        /\ \A i \in 1..Len(image_norm) :
                /\ hot_mask[i] <=> Cardinality(HotVotes(i)) >= 2
                /\ dead_mask[i] <=> Cardinality(DeadVotes(i)) >= 2

\* in one image, a sample that two methods put above their threshold is in
\* the hot mask and a sample that one method alone puts above its threshold
\* is not
C1_Witness ==
    /\ Detected
    /\ \E i, j \in 1..Len(image_norm) :
            /\ Cardinality(HotVotes(i)) = 2 /\ hot_mask[i]
            /\ Cardinality(HotVotes(j)) = 1 /\ ~hot_mask[j]

\* the sum, the sample count times the denominator, and the variance
\* numerator of the normalized image: mean = ImgSum / ImgScale and
\* std = sqrt(ImgVar) / ImgScale
ImgSum == SumSeq(Nums(image_norm))
ImgScale == Len(image_norm) * image_norm[1].den
ImgVar == VarN2(Nums(image_norm))
ImgFinite == ~HasNaN(Nums(image_norm))

\* C3 as claimed: the validator finds no issue iff mean < 0.1, snr_db > 10
\* and std < 0.05.
C3_ValidIffStrictlyInside ==
    dark_checked =>
        ( issues = {} <=>
            /\ ImgFinite
            /\ 10 * ImgSum < ImgScale
            /\ ImgVar > 0 /\ ImgSum > 0 /\ ImgSum * ImgSum > 10 * ImgVar
            /\ 400 * ImgVar < ImgScale * ImgScale )

\* C3 as amended: the validator finds no issue iff mean <= 0.1 and
\* snr_db >= 10 (snr_db being the sentinel -100 unless std > 0 and mean > 0).
C3_ValidIffNotOutside ==
    (dark_checked /\ config.max_dark_mean = 100 /\ config.min_snr_db = 10) =>
        ( issues = {} <=>
            /\ ImgFinite
            /\ 10 * ImgSum <= ImgScale
            /\ ImgVar > 0 /\ ImgSum > 0 /\ ImgSum * ImgSum >= 10 * ImgVar )

\* an image whose mean is exactly 0.1 passes the check
C3_Witness ==
    /\ dark_checked
    /\ ImgFinite
    /\ 10 * ImgSum = ImgScale
    /\ issues = {}

\* C4 as claimed: every run of analyze_image executes the dark-frame check.
C4_CheckAlwaysRuns ==
    Returned => dark_checked

\* C4 as amended: a run of analyze_image executes the dark-frame check
\* exactly when require_dark_frame is set; whatever the check finds, the run
\* goes on, and it ends with the statistics, the masks and the counts.
C4_CheckRunsIffRequired ==
    /\ pc \in {"stats", "detect", "count", "report", "done"} =>
            dark_checked = config.require_dark_frame
    /\ dark_checked =>
            (pc \in {"stats", "detect", "count", "report", "done"} /\ error = "")
    /\ Returned =>
            /\ stats.total_pixels = Len(image)
            /\ Len(hot_mask) = Len(image)
            /\ Len(dead_mask) = Len(image)
            /\ stats.hot_pixels = CountTrue(hot_mask)
            /\ stats.dead_pixels = CountTrue(dead_mask)

\* a run with the check disabled returns its result without having checked
C4_Witness ==
    /\ Returned
    /\ ~config.require_dark_frame
    /\ ~dark_checked
    /\ stats.total_pixels = MaxPixels

\* C8: when the dark-frame check finds the image invalid, the recommendation
\* reports it and the grade is lower than the one the same measurements get
\* on a valid dark frame.
C8_InvalidityDowngrades ==
    (pc = "done" /\ dark_checked /\ issues # {}) =>
        /\ recommendation = RecNotDarkFrame
        /\ CalculateIsoClass(stats) # GradeD =>
                GradeRank(iso_class) < GradeRank(CalculateIsoClass(stats))

\* an empty image, or an image of non-finite samples only
InvalidInput == image = <<>> \/ \A i \in 1..Len(image) : IsNaN(image[i])

\* C10: on an empty image or an image of non-finite samples only,
\* analyze_image fails and produces no statistics, masks or class.
C10_InvalidInputFailsFast ==
    InvalidInput =>
        /\ pc \in {"normalize", "failed"}
        /\ stats = NoStats
        /\ hot_mask = <<>>
        /\ dead_mask = <<>>
        /\ iso_class = ""

\* a file that loads and that analyze_image accepts
Analyzable(f) ==
    f.exists /\ Lower(f.suffix) \in {".tif", ".tiff"} /\ f.readable
        /\ f.image # <<>>

\* the names of the analyzable and of the other files among the first k
SucceededUpTo(k) ==
    LET fs == SelectSeq(SubSeq(batch_dir.files, 1, k), Analyzable)
    IN  [i \in 1..Len(fs) |-> fs[i].name]

NotAnalyzable(f) == ~Analyzable(f)

FailedUpTo(k) ==
    LET fs == SelectSeq(SubSeq(batch_dir.files, 1, k), NotAnalyzable)
    IN  [i \in 1..Len(fs) |-> fs[i].name]

RowFiles(rows) == [i \in 1..Len(rows) |-> rows[i].file]

\* process_batch left its loop over a non-empty listing
BatchLooped ==
    pc = "exited" /\ batch_dir.exists /\ batch_dir.files # <<>>

\* every file before the cursor was attempted, in order: the analyzable ones
\* have their row, the others their log entry, and the loop ends only past
\* the last file
AllAttempted ==
    /\ pc = "batch_loop" =>
            /\ cursor \in 1..(Len(batch_dir.files) + 1)
            /\ RowFiles(results) = SucceededUpTo(cursor - 1)
            /\ batch_log = FailedUpTo(cursor - 1)
    /\ BatchLooped =>
            /\ cursor = Len(batch_dir.files) + 1
            /\ RowFiles(results) = SucceededUpTo(Len(batch_dir.files))
            /\ batch_log = FailedUpTo(Len(batch_dir.files))

\* C11 as claimed: in batch mode every discovered file is attempted, a
\* failing file is logged and skipped without stopping the rest, and
\* afterwards a consolidated report is emitted whose rows are exactly the
\* successfully analyzed files (a failure of the report writer aside).
C11_ReportAlwaysEmitted ==
    /\ AllAttempted
    /\ (BatchLooped /\ error = "") =>
            /\ batch_report.written
            /\ RowFiles(batch_report.rows) = SucceededUpTo(Len(batch_dir.files))

\* C11 as amended: every discovered file is attempted, a failing file is
\* logged and skipped without stopping the rest, and afterwards a
\* consolidated report is emitted iff at least one file was analyzed (and the
\* writer does not fail); its rows are exactly the analyzed files. When every
\* file fails there is no report.
C11_ReportIffSomeAnalyzed ==
    /\ AllAttempted
    /\ (BatchLooped /\ error = "") =>
            /\ batch_report.written <=>
                    SucceededUpTo(Len(batch_dir.files)) # <<>>
            /\ RowFiles(batch_report.rows) = SucceededUpTo(Len(batch_dir.files))
    /\ batch_report.written => (BatchLooped /\ batch_report.rows = results)

\* a listing of MaxFiles files whose first and last fail: both are logged,
\* and the report holds the one between them
C11_Witness ==
    /\ BatchLooped
    /\ Len(batch_dir.files) = MaxFiles
    /\ batch_log = <<1, MaxFiles>>
    /\ batch_report.written
    /\ Len(batch_report.rows) = MaxFiles - 2

LoadErrors == {"FileNotFoundError", "Formato no soportado", "Error cargando"}

\* nothing of analyze_image has run
NotAnalyzed ==
    /\ bit_depth = 0
    /\ image_norm = <<>>
    /\ ~dark_checked
    /\ stats = NoStats
    /\ hot_mask = <<>>
    /\ dead_mask = <<>>

\* C12: in single-file mode the first failure, in loading, in analysis or in
\* report generation, stops the processing and the program exits with
\* status 1; no step after the failing one has run.
C12_FirstFailureExitsOne ==
    /\ exit_status # -1 => pc = "exited"
    /\ pc \in {"failed", "exited"} =>
            /\ error # "" => exit_status \in {-1, 1}
            /\ error \in LoadErrors =>
                    image = <<>> /\ NotAnalyzed /\ reports = {} /\ iso_class = ""
            /\ error = "ValueError" =>
                    NotAnalyzed /\ reports = {} /\ iso_class = ""
            /\ error = "AttributeError" =>
                    /\ reports \cap {"excel", "txt", "html", "images"} = {}
                    /\ iso_class = ""
    /\ pc = "exited" => (exit_status = 1 <=> error # "")

\* an image that loads and that analyze_image rejects: status 1, no report
C12_Witness ==
    /\ pc = "exited"
    /\ error = "ValueError"
    /\ exit_status = 1
    /\ NotAnalyzed
    /\ reports = {}

\* an image of zeros, of any shape that has samples
AllZero == image # <<>> /\ \A i \in 1..Len(image) : image[i] = 0

\* C13: on an all-zero image the inferred bit depth is 8, the normalized
\* image is all zero, mean = 0, std = 0, the SNR is the sentinel -100, no
\* sample is hot or dead, and the dark-frame check, when it runs, reports the
\* image as not valid.
C13_AllZeroImage ==
    (AllZero /\ pc # "normalize") =>
        /\ bit_depth = 8
        /\ Len(image_norm) = Len(image)
        /\ \A i \in 1..Len(image_norm) : image_norm[i].num = 0
        /\ dark_checked =>
                /\ issues # {}
                /\ warnings = <<"Posiblemente NO es un dark frame valido">>
        /\ (pc # "validate" /\ config.require_dark_frame) => dark_checked
        /\ pc \in {"detect", "count", "report", "done"} =>
                /\ ~stats.nan
                /\ stats.mean_n = 0
                /\ stats.std_n2 = 0
        /\ Detected =>
                \A i \in 1..Len(image) : ~hot_mask[i] /\ ~dead_mask[i]
        /\ Returned =>
                /\ stats.snr_db = -100
                /\ stats.hot_pixels = 0
                /\ stats.dead_pixels = 0
                /\ stats.hot_percentage.num = 0
                /\ stats.dead_percentage.num = 0

\* an all-zero image of MaxPixels samples, checked, found not valid for its
\* SNR, and returned with the sentinel
C13_Witness ==
    /\ AllZero
    /\ Len(image) = MaxPixels
    /\ Returned
    /\ dark_checked
    /\ issues = {"SNR bajo"}
    /\ stats.snr_db = -100
    /\ stats.hot_pixels = 0

\* all samples share one value, but for a strictly higher one at hi and a
\* strictly lower one at lo
OneHighOneLow(hi, lo) ==
    /\ hi # lo
    /\ \E k \in 1..Len(image) :
            /\ k \notin {hi, lo}
            /\ image[lo] < image[k] /\ image[k] < image[hi]
            /\ \A j \in (1..Len(image)) \ {hi, lo} : image[j] = image[k]

\* the result flags exactly hi as hot and lo as dead, each percentage being
\* 100 / total_pixels, and the bit depth is 16 for a high value above 16383
FlagsExactly(hi, lo) ==
    /\ stats.hot_pixels = 1
    /\ stats.dead_pixels = 1
    /\ \A i \in 1..Len(image) : (hot_mask[i] <=> i = hi) /\ (dead_mask[i] <=> i = lo)
    /\ stats.hot_percentage.num * Len(image)
            = 1000000 * stats.hot_percentage.den
    /\ stats.dead_percentage.num * Len(image)
            = 1000000 * stats.dead_percentage.den
    /\ image[hi] > 16383 => bit_depth = 16

\* C14 as claimed: on an image whose samples share one value but for exactly
\* one strictly higher and one strictly lower sample, analyze_image reports
\* one hot and one dead sample, the masks marking exactly those two, bit
\* depth 16 (the high value being above 16383) and each percentage equal to
\* 100 / total_pixels.
C14_OneHotOneDead ==
    Returned =>
        \A hi, lo \in 1..Len(image) :
            OneHighOneLow(hi, lo) => FlagsExactly(hi, lo)

\* C14 as amended: the same, for an image of at least 5 samples.
C14_OneHotOneDeadFromFive ==
    (Returned /\ Len(image) >= 5) =>
        \A hi, lo \in 1..Len(image) :
            OneHighOneLow(hi, lo) => FlagsExactly(hi, lo)

\* an image of 5 samples with a 16-bit high value, under the default
\* configuration: one hot and one dead sample
C14_Witness ==
    /\ Returned
    /\ config = DefaultConfig
    /\ Len(image) = 5
    /\ \E hi, lo \in 1..Len(image) :
            /\ OneHighOneLow(hi, lo)
            /\ image[hi] > 16383
            /\ hot_mask[hi] /\ dead_mask[lo]
    /\ bit_depth = 16
    /\ stats.hot_pixels = 1
    /\ stats.dead_pixels = 1

\* process_single loaded the image and analyze_image returned its result
AnalysisCompleted ==
    /\ image # <<>>
    /\ stats.total_pixels = Len(image)
    /\ Len(hot_mask) = Len(image)
    /\ Len(dead_mask) = Len(image)

\* C15: in single-file mode, whenever the image loads and analyze_image
\* completes, generate_all_reports produces the json, excel, txt and html
\* reports, and the images since both masks are given, and process_single
\* returns 0.
C15_ReportsAndStatusZero ==
    (pc = "exited" /\ AnalysisCompleted) =>
        /\ {"json", "excel", "txt", "html", "images"} \subseteq reports
        /\ exit_status = 0

\* the six multipliers of the configuration are non-negative
NonNegativeMultipliers ==
    /\ config.hot_pixel_sigma >= 0 /\ config.dead_pixel_sigma >= 0
    /\ config.hot_pixel_iqr_mult >= 0 /\ config.dead_pixel_iqr_mult >= 0
    /\ config.hot_pixel_mad_mult >= 0 /\ config.dead_pixel_mad_mult >= 0

AllEqual == \A i, j \in 1..Len(image) : image[i] = image[j]

\* C16: with six non-negative multipliers no sample is in both masks, so
\* hot_pixels + dead_pixels <= total_pixels and the two percentages sum to at
\* most 100; on an image whose samples are all equal both masks are empty.
C16_MasksDisjoint ==
    NonNegativeMultipliers =>
        /\ Detected =>
                /\ \A i \in 1..Len(image) : ~(hot_mask[i] /\ dead_mask[i])
                /\ CountTrue(hot_mask) + CountTrue(dead_mask) <= Len(image)
                /\ AllEqual =>
                        \A i \in 1..Len(image) : ~hot_mask[i] /\ ~dead_mask[i]
        /\ Returned =>
                /\ stats.hot_pixels + stats.dead_pixels <= stats.total_pixels
                /\ stats.hot_percentage.den = stats.dead_percentage.den
                /\ stats.hot_percentage.num + stats.dead_percentage.num
                        <= 1000000 * stats.hot_percentage.den
                /\ AllEqual => stats.hot_pixels = 0 /\ stats.dead_pixels = 0

\* an image with a hot sample and a dead sample, each in one mask only
C16_Witness ==
    /\ Returned
    /\ NonNegativeMultipliers
    /\ \E i, j \in 1..Len(image) :
            /\ hot_mask[i] /\ ~dead_mask[i]
            /\ dead_mask[j] /\ ~hot_mask[j]
    /\ stats.hot_pixels + stats.dead_pixels <= stats.total_pixels

\* C17: process_batch returns 0 whenever the directory exists and the glob
\* finds at least one file, however many files fail; when every file fails
\* no consolidated report is written. It returns 1 only when the directory
\* is missing, when no file is found, or when an error escapes the per-file
\* loop, as one raised while the consolidated report is written.
C17_BatchStatus ==
    /\ exit_status # -1 => pc = "exited"
    /\ pc = "exited" =>
            /\ exit_status =
                    IF ~batch_dir.exists \/ batch_dir.files = <<>> \/ error # ""
                    THEN 1 ELSE 0
            /\ error # "" =>
                    /\ BatchLooped
                    /\ results # <<>>
                    /\ ~batch_report.written
            /\ (BatchLooped /\ Len(batch_log) = Len(batch_dir.files)) =>
                    /\ exit_status = 0
                    /\ error = ""
                    /\ ~batch_report.written
    /\ batch_report.written => exit_status = 0

\* a listing of MaxFiles files that all fail: status 0 and no report
C17_Witness ==
    /\ BatchLooped
    /\ Len(batch_dir.files) = MaxFiles
    /\ Len(batch_log) = MaxFiles
    /\ results = <<>>
    /\ exit_status = 0
    /\ ~batch_report.written

====
